---- MODULE Spec2Model ----
(***************************************************************************)
(* FakeXRandR, xcb flavour (libxcb-randr.cpp, fakexrandr.h): the engine     *)
(* that splits a real RandR output into virtual outputs, CRTCs and modes    *)
(* and answers the detail queries for them.                                 *)
(***************************************************************************)
EXTENDS Integers, Sequences, FiniteSets, TLC

(***************************************************************************)
(* 32-bit unsigned arithmetic.  TLC integers stop at 2^31-1, so a uint32_t  *)
(* or unsigned value is the pair <<high 16 bits, low 16 bits>>.             *)
(***************************************************************************)
Half == 2^16

U32(k) == <<k \div Half, k % Half>>

U32Add(a, b) ==
    LET lo == a[2] + b[2]
    IN  <<(a[1] + b[1] + (lo \div Half)) % Half, lo % Half>>

U32Sub(a, b) ==
    LET lo == (a[2] - b[2]) + Half
        borrow == 1 - (lo \div Half)
    IN  <<((a[1] - b[1] - borrow) + Half) % Half, lo % Half>>

U32Lt(a, b) == a[1] < b[1] \/ (a[1] = b[1] /\ a[2] < b[2])

U32Le(a, b) == a = b \/ U32Lt(a, b)

\* full product of two 16-bit halves, as a 32-bit pair
Mul16(p, q) ==
    LET p1 == p \div 256
        p0 == p % 256
        q1 == q \div 256
        q0 == q % 256
        t  == ((p1 * q0) + (p0 * q1)) * 256 + (p0 * q0)
    IN  <<(p1 * q1) + (t \div Half), t % Half>>

U32Mul(a, b) ==
    LET ll == Mul16(a[2], b[2])
        cross == (Mul16(a[1], b[2])[2] + Mul16(a[2], b[1])[2]) % Half
    IN  <<(ll[1] + cross) % Half, ll[2]>>

\* a / d for a divisor 0 < d < 2^16 (a promoted uint16_t), base-256 long division
U32Div(a, d) ==
    LET d3 == a[1] \div 256
        d2 == a[1] % 256
        d1 == a[2] \div 256
        d0 == a[2] % 256
        r3 == d3 % d
        t2 == r3 * 256 + d2
        r2 == t2 % d
        t1 == r2 * 256 + d1
        r1 == t1 % d
        t0 == r1 * 256 + d0
    IN  <<(d3 \div d) * 256 + (t2 \div d), (t1 \div d) * 256 + (t0 \div d)>>

\* conversions of an unsigned value to the narrower field types
ToU16(a) == a[2]
ToI16(a) == IF a[2] >= 2^15 THEN a[2] - Half ELSE a[2]
\* int -> unsigned for a value of a 16-bit field (int16_t or uint16_t)
OfInt(i) == IF i < 0 THEN <<Half - 1, Half + i>> ELSE U32(i)

(***************************************************************************)
(* Identifier codec (fakexrandr.h, augmentXID).                             *)
(***************************************************************************)
XID_SPLIT_SHIFT == 21
\* XID_SPLIT_MASK = 0x7FE00000: bits 21..30, i.e. bits 5..14 of the high half
MaskLowBit == 2^(XID_SPLIT_SHIFT - 16)
MaskTopBit == 2^15

\* xid & XID_SPLIT_MASK
SplitBits(xid) == <<((xid[1] % MaskTopBit) \div MaskLowBit) * MaskLowBit, 0>>
\* xid & ~XID_SPLIT_MASK
ClearSplit(xid) ==
    <<(xid[1] \div MaskTopBit) * MaskTopBit + (xid[1] % MaskLowBit), xid[2]>>
\* (xid & XID_SPLIT_MASK) >> XID_SPLIT_SHIFT
SplitIndex(xid) == (xid[1] % MaskTopBit) \div MaskLowBit

\* a variant of the shift that moves the counter one bit short
ShiftIndexShort(n) == <<(n[2] * (MaskLowBit \div 2)) % Half, 0>>

\* n << XID_SPLIT_SHIFT in 32 bits: only the low 11 bits of n survive
ShiftIndex(n) == <<(n[2] * MaskLowBit) % Half, 0>>

\* bitwise or of a value whose bits 21..30 are clear with a value whose bits
\* 0..20 are clear: the two can only share bit 31
OrDisjoint(a, s) ==
    LET top == IF a[1] >= MaskTopBit \/ s[1] >= MaskTopBit THEN MaskTopBit ELSE 0
    IN  <<top + (a[1] % MaskTopBit) + (s[1] % MaskTopBit), a[2]>>

augmentXID(xid, n) == OrDisjoint(ClearSplit(xid), ShiftIndex(n))


(***************************************************************************)
(* The real backend.  Real ids have the reserved bits clear.                *)
(***************************************************************************)
\* a null reply or pointer
NULL == [null |-> TRUE]
None == U32(0)

O1 == U32(66)
O2 == U32(67)
O3 == U32(68)
C1 == U32(63)
C2 == U32(64)
M1 == U32(70)
M2 == U32(71)

XCB_RANDR_CONNECTION_CONNECTED == "CONNECTED"
XCB_RANDR_CONNECTION_DISCONNECTED == "DISCONNECTED"

\* xcb_randr_mode_info_t
ModeInfo(id, w, h, nm) == [id |-> id, width |-> w, height |-> h, name |-> nm, timing |-> id]

\* xcb_randr_get_output_info_reply_t with its variable-length lists
OutputInfo(crtc, mmw, mmh, clones, nm) ==
    [connection |-> XCB_RANDR_CONNECTION_CONNECTED, crtc |-> crtc,
     mm_width |-> U32(mmw), mm_height |-> U32(mmh),
     crtcs |-> <<C1, C2>>, modes |-> <<M1, M2>>, num_preferred |-> 1,
     clones |-> clones, name |-> nm]

\* xcb_randr_get_crtc_info_reply_t with its variable-length lists
CrtcInfo(x, y, w, h, mode, outputs) ==
    [x |-> x, y |-> y, width |-> w, height |-> h, mode |-> mode,
     outputs |-> outputs, possible |-> <<O1, O2>>]

RealModes == <<ModeInfo(M1, 4, 2, "4x2"), ModeInfo(M2, 2, 2, "2x2")>>

\* The display configurations the backend may be in.  edid is the bytes of
\* the output's EDID property (<<>> when it has none).
HwConfigs == <<
    \* two monitors side by side
    [outputs |-> <<O1, O2>>, crtcs |-> <<C1, C2>>, modes |-> RealModes,
     edid |-> (O1 :> <<170>> @@ O2 :> <<187>>),
     output_info |-> (O1 :> OutputInfo(C1, 40, 20, <<>>, "DP-1")
                   @@ O2 :> OutputInfo(C2, 20, 20, <<>>, "DP-2")),
     crtc_info |-> (C1 :> CrtcInfo(0, 0, 4, 2, M1, <<O1>>)
                 @@ C2 :> CrtcInfo(4, 0, 2, 2, M2, <<O2>>))],
    \* the first monitor switched to another mode, the second one disabled
    [outputs |-> <<O1, O2>>, crtcs |-> <<C1, C2>>, modes |-> RealModes,
     edid |-> (O1 :> <<170>> @@ O2 :> <<187>>),
     output_info |-> (O1 :> OutputInfo(C1, 40, 20, <<>>, "DP-1")
                   @@ O2 :> OutputInfo(None, 20, 20, <<>>, "DP-2")),
     crtc_info |-> (C1 :> CrtcInfo(1, 1, 2, 2, M2, <<O1>>)
                 @@ C2 :> CrtcInfo(0, 0, 0, 0, None, <<>>))],
    \* two monitors of the same model driven by one CRTC (clone mode)
    [outputs |-> <<O1, O2>>, crtcs |-> <<C1, C2>>, modes |-> RealModes,
     edid |-> (O1 :> <<170>> @@ O2 :> <<170>>),
     output_info |-> (O1 :> OutputInfo(C1, 40, 20, <<O2>>, "DP-1")
                   @@ O2 :> OutputInfo(C1, 40, 20, <<O1>>, "DP-2")),
     crtc_info |-> (C1 :> CrtcInfo(0, 0, 4, 2, M1, <<O1, O2>>)
                 @@ C2 :> CrtcInfo(0, 0, 0, 0, None, <<>>))],
    \* three outputs: the first has no EDID property, the request for the
    \* second one's info is answered with an error (it is gone)
    [outputs |-> <<O2, O3, O1>>, crtcs |-> <<C1, C2>>, modes |-> RealModes,
     edid |-> (O1 :> <<170>> @@ O2 :> <<>> @@ O3 :> <<187>>),
     output_info |-> (O1 :> OutputInfo(C1, 40, 20, <<>>, "DP-1")
                   @@ O2 :> OutputInfo(C2, 20, 20, <<>>, "DP-2")),
     crtc_info |-> (C1 :> CrtcInfo(0, 0, 4, 2, M1, <<O1>>)
                 @@ C2 :> CrtcInfo(4, 0, 2, 2, M2, <<O2>>))]
>>

\* _xcb_randr_get_output_info_reply / _xcb_randr_get_crtc_info_reply of the
\* real library for a request on id: the reply, or NULL with an error
RealOutputInfo(h, id) ==
    IF id \in DOMAIN h.output_info THEN h.output_info[id] ELSE NULL
RealCrtcInfo(h, id) ==
    IF id \in DOMAIN h.crtc_info THEN h.crtc_info[id] ELSE NULL

\* xcb_randr_get_screen_resources_reply_t of the real library
RealResources(h) ==
    [num_crtcs |-> Len(h.crtcs), num_outputs |-> Len(h.outputs),
     num_modes |-> Len(h.modes),
     crtcs |-> h.crtcs, outputs |-> h.outputs, modes |-> h.modes,
     names |-> [i \in 1..Len(h.modes) |-> h.modes[i].name]]


(***************************************************************************)
(* Virtual objects.  Each holds its id and the reply its makeReturnValue()  *)
(* builds.                                                                  *)
(***************************************************************************)
\* FakeCrtcInfo::FakeCrtcInfo and FakeCrtcInfo::makeReturnValue
FakeCrtcInfo(xid, output, crtcInfo, x, y, width, height, mode) ==
    [xid |-> xid,
     info |-> [crtcInfo EXCEPT !.x = ToI16(x), !.y = ToI16(y),
                               !.width = ToU16(width), !.height = ToU16(height),
                               !.mode = mode,
                               !.outputs = <<output>>, !.possible = <<output>>]]

\* FakeOutputInfo::FakeOutputInfo and FakeOutputInfo::makeReturnValue, with
\* the clones, crtc and modes[0] the planner fills in after construction.
\* The name is the parent's name, "~" and the index.
FakeOutputInfo(xid, parent_xid, origInfo, mm_width, mm_height, suffixIndex) ==
    LET crtc == augmentXID(origInfo.crtc, suffixIndex)
    IN  [xid |-> xid, parent_xid |-> parent_xid,
         info |-> [origInfo EXCEPT
                     !.mm_width = mm_width, !.mm_height = mm_height,
                     !.crtc = crtc, !.crtcs = <<crtc>>, !.modes = <<crtc>>,
                     !.num_preferred = 0,
                     !.clones = [i \in 1..Len(origInfo.clones) |->
                                    augmentXID(origInfo.clones[i], suffixIndex)],
                     !.name = <<origInfo.name, "~", suffixIndex>>]]

\* FakeModeInfo::FakeModeInfo: the base mode with id, size and name replaced
FakeModeInfo(xid, baseMode, width, height) ==
    [baseMode EXCEPT !.id = xid, !.width = ToU16(width), !.height = ToU16(height),
                     !.name = <<ToU16(width), "x", ToU16(height)>>]

\* list_length
list_length(list) == Len(list)

\* a variant of xid_in_list that does not look at parent_xid
xid_in_list_own(list, xid) ==
    \E i \in 1..Len(list) : list[i].xid = xid

\* xid_in_list over the fake outputs
xid_in_list(list, xid) ==
    \E i \in 1..Len(list) : list[i].xid = xid \/ list[i].parent_xid = xid

(***************************************************************************)
(* Split planner.  A plan payload is the sequence of its nodes in document  *)
(* order: [tag |-> "N"] for a leaf, [tag |-> "H" or "V", split_pos |-> s]   *)
(* for a split followed by its two children.                                *)
(***************************************************************************)
NodeN == [tag |-> "N", split_pos |-> U32(0)]
NodeH(s) == [tag |-> "H", split_pos |-> U32(s)]
NodeV(s) == [tag |-> "V", split_pos |-> U32(s)]
\* a node whose tag byte is none of 'N', 'H', 'V'
NodeX == [tag |-> "X", split_pos |-> U32(0)]

\* config[0] at a position of the payload; "?" stands for a byte that is not
\* one of the plan's own
TagAt(config, pos) == IF pos \in DOMAIN config THEN config[pos].tag ELSE "?"

\* the first mode of the resources whose id is the CRTC's mode, or <<>>
FindMode(modes, id) ==
    LET hits == {i \in 1..Len(modes) : modes[i].id = id}
    IN  IF hits = {} THEN <<>>
        ELSE <<modes[CHOOSE i \in hits : \A j \in hits : i <= j]>>

\* a variant of the 'N' branch that appends the output and leaves the CRTC out
AppendLeafOutputOnly(acc, n, fo, fc, fm, leaf) ==
    [acc EXCEPT !.n = n,
                !.fake_outputs = Append(@, fo),
                !.fake_modes = @ \o fm,
                !.leaves = Append(@, leaf)]

\* the 'N' branch once the objects are built: they are appended to the lists
AppendLeaf(acc, n, fo, fc, fm, leaf) ==
    [acc EXCEPT !.n = n,
                !.fake_outputs = Append(@, fo),
                !.fake_crtcs = Append(@, fc),
                !.fake_modes = @ \o fm,
                !.leaves = Append(@, leaf)]

\* the fake mode of a leaf: none when the CRTC's mode is not listed
LeafMode(base, xid, width, height) ==
    IF base = <<>> THEN <<>> ELSE <<FakeModeInfo(xid, base[1], width, height)>>

\* a variant of the 'N' branch that scales both physical dimensions by the
\* area of the leaf over the area of the CRTC
SplitLeafAtByArea(n, x, y, width, height, resources, output, output_info, crtc_info, acc) ==
    AppendLeaf(acc, n,
        FakeOutputInfo(augmentXID(output, n), output, output_info,
            U32Div(U32Mul(output_info.mm_width, U32Mul(width, height)),
                   crtc_info.width * crtc_info.height),
            U32Div(U32Mul(output_info.mm_height, U32Mul(width, height)),
                   crtc_info.width * crtc_info.height), n),
        FakeCrtcInfo(augmentXID(output_info.crtc, n), augmentXID(output, n), crtc_info,
            U32Add(OfInt(crtc_info.x), x), U32Add(OfInt(crtc_info.y), y),
            width, height, augmentXID(output_info.crtc, n)),
        LeafMode(FindMode(resources.modes, crtc_info.mode),
                 augmentXID(output_info.crtc, n), width, height),
        <<x, y, width, height>>)

\* the 'N' branch for the incremented counter n: one fake output, one fake
\* CRTC and (when the CRTC's mode is listed) one fake mode
SplitLeafAt(n, x, y, width, height, resources, output, output_info, crtc_info, acc) ==
    AppendLeaf(acc, n,
        FakeOutputInfo(augmentXID(output, n), output, output_info,
            U32Div(U32Mul(output_info.mm_width, width), crtc_info.width),
            U32Div(U32Mul(output_info.mm_height, height), crtc_info.height), n),
        FakeCrtcInfo(augmentXID(output_info.crtc, n), augmentXID(output, n), crtc_info,
            U32Add(OfInt(crtc_info.x), x), U32Add(OfInt(crtc_info.y), y),
            width, height, augmentXID(output_info.crtc, n)),
        LeafMode(FindMode(resources.modes, crtc_info.mode),
                 augmentXID(output_info.crtc, n), width, height),
        <<x, y, width, height>>)

\* the 'N' branch; acc.n is the counter *n
SplitLeaf(x, y, width, height, resources, output, output_info, crtc_info, acc) ==
    SplitLeafAt(U32Add(acc.n, U32(1)), x, y, width, height, resources, output,
                output_info, crtc_info, acc)

\* _config_foreach_split: returns the position after the subtree and the lists.
\* env = [resources, output, output_info, crtc_info].  A tag that is neither
\* 'N', 'H' nor 'V' fails the assertion.  SplitSecondH and SplitSecondV are the
\* second recursive call of a split, on what the first one returned.
RECURSIVE config_foreach_split(_, _, _, _, _, _, _, _)
SplitSecondH(config, first, split_pos, x, y, width, height, env) ==
    config_foreach_split(config, first.pos, x, U32Add(y, split_pos), width,
                         U32Sub(height, split_pos), env, first.acc)

SplitSecondV(config, first, split_pos, x, y, width, height, env) ==
    config_foreach_split(config, first.pos, U32Add(x, split_pos), y,
                         U32Sub(width, split_pos), height, env, first.acc)

config_foreach_split(config, pos, x, y, width, height, env, acc) ==
    IF acc.abort THEN [pos |-> pos, acc |-> acc]
    ELSE IF TagAt(config, pos) = "N" THEN
        [pos |-> pos + 1,
         acc |-> SplitLeaf(x, y, width, height, env.resources, env.output,
                           env.output_info, env.crtc_info, acc)]
    ELSE IF TagAt(config, pos) = "H" THEN
        SplitSecondH(config,
            config_foreach_split(config, pos + 1, x, y, width, config[pos].split_pos,
                                 env, acc),
            config[pos].split_pos, x, y, width, height, env)
    ELSE IF TagAt(config, pos) = "V" THEN
        SplitSecondV(config,
            config_foreach_split(config, pos + 1, x, y, config[pos].split_pos, height,
                                 env, acc),
            config[pos].split_pos, x, y, width, height, env)
    ELSE [pos |-> pos, acc |-> [acc EXCEPT !.abort = TRUE]]

\* the empty lists updateFakeResources starts from
NoFakes ==
    [n |-> U32(0), fake_crtcs |-> <<>>, fake_outputs |-> <<>>, fake_modes |-> <<>>,
     leaves |-> <<>>, abort |-> FALSE]


(***************************************************************************)
(* Configuration stream (fakexrandr.h) and the matcher.                     *)
(***************************************************************************)
\* 4 + 128 + 768 + 4 + 4 + 4: size, name, edid, width, height, count
HeaderBytes == 4 + 128 + 768 + 4 + 4 + 4

RECURSIVE PayloadBytes(_)
PayloadBytes(payload) ==
    IF payload = <<>> THEN 0
    ELSE (IF Head(payload).tag = "N" THEN 1 ELSE 1 + 4) + PayloadBytes(Tail(payload))

\* a record as the management script writes it: size counts what follows it
Record(edid, width, height, payload) ==
    [size |-> U32((HeaderBytes - 4) + PayloadBytes(payload)),
     edid |-> edid, width |-> U32(width), height |-> U32(height),
     count |-> U32(PayloadBytes(payload)), payload |-> payload]

RecordBytes(rec) == HeaderBytes + PayloadBytes(rec.payload)

RECURSIVE FileSize(_)
\* config_file_size
FileSize(file) ==
    IF file = <<>> THEN 0 ELSE RecordBytes(Head(file)) + FileSize(Tail(file))

\* offset of the i-th record
RecordStart(file, i) == FileSize(SubSeq(file, 1, i - 1))

Hex == <<"0", "1", "2", "3", "4", "5", "6", "7", "8", "9", "a", "b", "c", "d", "e", "f">>

\* the configuration files the stream may hold
ConfigFiles == <<
    <<Record(<<"a", "a">>, 4, 2, <<NodeV(2), NodeN, NodeN>>)>>,
    <<Record(<<"a", "a">>, 2, 2, <<NodeN>>),
      Record(<<"a", "a">>, 4, 2, <<NodeH(1), NodeN, NodeV(2), NodeN, NodeN>>),
      Record(<<"b", "b">>, 2, 2, <<NodeV(1), NodeN, NodeN>>),
      Record(<<"a", "a">>, 4, 2, <<NodeN>>)>>,
    <<Record(<<"a", "a">>, 4, 2, <<NodeV(5), NodeN, NodeN>>),
      Record(<<"b", "b">>, 2, 2, <<NodeX>>)>>
>>

\* get_output_edid: the hex-coded EDID and the returned length num_items * 2
get_output_edid(h, output) ==
    LET prop == h.edid[output]
    IN  [edid |-> [i \in 1..(2 * Len(prop)) |->
                      IF i % 2 = 1 THEN Hex[(prop[(i + 1) \div 2] \div 16) + 1]
                                   ELSE Hex[(prop[i \div 2] % 16) + 1]],
         ret |-> 2 * Len(prop)]

\* The header fields read at a cursor.  At a record's start they are the
\* record's.  Anywhere else (in every file modelled the cursor stays on
\* record starts until it reaches or passes the end of the mapping) the reads
\* are outside the mapped file: they fault, or see the zero fill of the last
\* page.
ReadHeader(file, off, pastEnd) ==
    LET at == {i \in 1..Len(file) : RecordStart(file, i) = off}
    IN  IF at # {} THEN file[CHOOSE i \in at : TRUE]
        ELSE IF pastEnd = "fault" THEN [fault |-> TRUE]
        ELSE [size |-> U32(0), edid |-> <<>>, width |-> U32(0), height |-> U32(0),
              count |-> U32(0), payload |-> <<>>]

\* the result of config_handle_output: ret its return value, fault a signal
\* or failed assertion that ends the process
Handled(ret, acc, fault) == [ret |-> ret, acc |-> acc, fault |-> fault]

\* a variant that applies the plan with the counter left where it was
ApplyPlanCarryCounter(hdr, resources, output, output_info, output_crtc, acc) ==
    config_foreach_split(hdr.payload, 1, U32(0), U32(0), hdr.width, hdr.height,
        [resources |-> resources, output |-> output,
         output_info |-> output_info, crtc_info |-> output_crtc],
        acc).acc

\* a record whose EDID and size match: the plan is applied with a fresh counter
ApplyPlan(hdr, resources, output, output_info, output_crtc, acc) ==
    config_foreach_split(hdr.payload, 1, U32(0), U32(0), hdr.width, hdr.height,
        [resources |-> resources, output |-> output,
         output_info |-> output_info, crtc_info |-> output_crtc],
        [acc EXCEPT !.n = U32(0)]).acc

\* config_handle_output from the cursor off on; MatchRecord is the loop body
\* for the header read at the cursor, MatchSize the size test for the
\* fetched output and CRTC info
RECURSIVE config_handle_output(_, _, _, _, _, _, _, _)

\* a variant of the size test that applies the plan whatever the size
MatchAnySize(file, next, h, resources, output, target_edid, pastEnd, acc, hdr, output_info, output_crtc) ==
    IF output_info = NULL THEN Handled(0, acc, FALSE)
    ELSE IF output_crtc = NULL THEN Handled(0, acc, FALSE)
    ELSE Handled(1, ApplyPlan(hdr, resources, output, output_info, output_crtc, acc), FALSE)

MatchSize(file, next, h, resources, output, target_edid, pastEnd, acc, hdr, output_info, output_crtc) ==
    IF output_info = NULL THEN Handled(0, acc, FALSE)
    ELSE IF output_crtc = NULL THEN Handled(0, acc, FALSE)
    ELSE IF U32(output_crtc.width) = hdr.width /\ U32(output_crtc.height) = hdr.height
    THEN Handled(1, ApplyPlan(hdr, resources, output, output_info, output_crtc, acc), FALSE)
    ELSE config_handle_output(file, next, h, resources, output, target_edid, pastEnd, acc)

\* the value of a 32-bit unsigned number below 2^31
Value(a) == a[1] * Half + a[2]

\* config += 4 + size: the sum is taken in 32-bit unsigned arithmetic
NextCursor(off, size) == off + Value(U32Add(U32(4), size))

\* (int)(config - config_file) <= (int)config_file_size, for offsets and
\* sizes below 2^31 (the casts leave them as they are)
InScan(off, config_file_size) == off <= config_file_size

CrtcOf(h, output_info) ==
    IF output_info = NULL THEN NULL ELSE RealCrtcInfo(h, output_info.crtc)

MatchRecord(file, off, h, resources, output, target_edid, pastEnd, acc, hdr) ==
    IF hdr = [fault |-> TRUE] THEN Handled(0, acc, TRUE)
    ELSE IF hdr.edid = target_edid
    THEN MatchSize(file, NextCursor(off, hdr.size), h, resources,
                   output, target_edid, pastEnd, acc, hdr,
                   RealOutputInfo(h, output), CrtcOf(h, RealOutputInfo(h, output)))
    ELSE config_handle_output(file, NextCursor(off, hdr.size), h,
                              resources, output, target_edid, pastEnd, acc)

config_handle_output(file, off, h, resources, output, target_edid, pastEnd, acc) ==
    IF ~InScan(off, FileSize(file)) THEN Handled(0, acc, FALSE)
    ELSE MatchRecord(file, off, h, resources, output, target_edid, pastEnd, acc,
                     ReadHeader(file, off, pastEnd))

\* a failed assertion in the planner ends the process
AfterOutput(r) == [r EXCEPT !.fault = r.fault \/ r.acc.abort]

\* the loop of updateFakeResources over res_outputs[i..]; HandleEdid is the
\* loop body for the EDID fetched, NextOutput the step to the next output
RECURSIVE HandleOutputs(_, _, _, _, _, _)
NextOutput(file, h, res, i, pastEnd, r) ==
    IF r.fault THEN [acc |-> r.acc, fault |-> TRUE]
    ELSE HandleOutputs(file, h, res, i + 1, pastEnd, r.acc)

\* a variant of the loop body that leaves the loop at an output without EDID
HandleEdidStop(file, h, res, i, pastEnd, acc, e) ==
    IF e.ret > 0
    THEN NextOutput(file, h, res, i, pastEnd,
             AfterOutput(config_handle_output(file, 0, h, res, res.outputs[i], e.edid,
                                              pastEnd, acc)))
    ELSE [acc |-> acc, fault |-> FALSE]

HandleEdid(file, h, res, i, pastEnd, acc, e) ==
    NextOutput(file, h, res, i, pastEnd,
        IF e.ret > 0
        THEN AfterOutput(config_handle_output(file, 0, h, res, res.outputs[i], e.edid,
                                              pastEnd, acc))
        ELSE Handled(0, acc, FALSE))

HandleOutputs(file, h, res, i, pastEnd, acc) ==
    IF i > Len(res.outputs) THEN [acc |-> acc, fault |-> FALSE]
    ELSE HandleEdid(file, h, res, i, pastEnd, acc, get_output_edid(h, res.outputs[i]))

(***************************************************************************)
(* FakeScreenResources and the pending tables.                              *)
(***************************************************************************)
\* FakeScreenResources::FakeScreenResources
FakeScreenResources(originalResources, fake_crtcs, fake_outputs, fake_modes) ==
    [origRes |-> originalResources, fake_crtcs |-> fake_crtcs,
     fake_outputs |-> fake_outputs, fake_modes |-> fake_modes]

\* a variant of makeReturnValue that fills in the fake CRTCs before the real ones
makeReturnValueFakesFirst(obj) ==
    [obj.origRes EXCEPT
        !.crtcs = [i \in 1..list_length(obj.fake_crtcs) |-> obj.fake_crtcs[i].xid] \o @,
        !.num_crtcs = @ + list_length(obj.fake_crtcs),
        !.outputs = @ \o [i \in 1..list_length(obj.fake_outputs) |-> obj.fake_outputs[i].xid],
        !.num_outputs = @ + list_length(obj.fake_outputs),
        !.modes = @ \o obj.fake_modes,
        !.num_modes = @ + list_length(obj.fake_modes),
        !.names = @ \o [i \in 1..list_length(obj.fake_modes) |-> obj.fake_modes[i].name]]

\* FakeScreenResources::makeReturnValue: the fixed part of the real reply is
\* copied; each array holds the real entries, then the fake ones, and each
\* count is incremented once per fake entry
makeReturnValue(obj) ==
    [obj.origRes EXCEPT
        !.crtcs = @ \o [i \in 1..list_length(obj.fake_crtcs) |-> obj.fake_crtcs[i].xid],
        !.num_crtcs = @ + list_length(obj.fake_crtcs),
        !.outputs = @ \o [i \in 1..list_length(obj.fake_outputs) |-> obj.fake_outputs[i].xid],
        !.num_outputs = @ + list_length(obj.fake_outputs),
        !.modes = @ \o obj.fake_modes,
        !.num_modes = @ + list_length(obj.fake_modes),
        !.names = @ \o [i \in 1..list_length(obj.fake_modes) |-> obj.fake_modes[i].name]]

\* AssocList::insert (List::prepend)
AssocInsert(pairs, key, value) == <<[key |-> key, value |-> value]>> \o pairs

\* a variant of find that answers with the head of the list
AssocFindHead(pairs, key) == IF pairs = <<>> THEN 0 ELSE 1

\* AssocList::find (List::find): position of the first pair with the key, 0 if none
AssocFind(pairs, key) ==
    LET hits == {i \in 1..Len(pairs) : pairs[i].key = key}
    IN  IF hits = {} THEN 0 ELSE CHOOSE i \in hits : \A j \in hits : i <= j

\* a variant of erase that unlinks the head of the list
AssocEraseHead(pairs, item) == Tail(pairs)

\* AssocList::erase (List::erase)
AssocErase(pairs, item) ==
    [i \in 1..(Len(pairs) - 1) |-> IF i < item THEN pairs[i] ELSE pairs[i + 1]]

\* a variant of the CRTC reply that zeroes the mode and keeps the geometry
CrtcReplyForModeOnly(obj, crtcId, info) ==
    IF SplitBits(crtcId) = U32(0) THEN
        IF \E i \in 1..Len(obj.fake_outputs) :
               ClearSplit(obj.fake_outputs[i].info.crtc) = crtcId
        THEN IF info = NULL THEN [ret |-> NULL, fault |-> TRUE]
             ELSE [ret |-> [info EXCEPT !.mode = None], fault |-> FALSE]
        ELSE [ret |-> info, fault |-> FALSE]
    ELSE
        LET hits == {i \in 1..Len(obj.fake_crtcs) : obj.fake_crtcs[i].xid = crtcId}
        IN  IF hits = {} THEN [ret |-> NULL, fault |-> FALSE]
            ELSE [ret |-> obj.fake_crtcs[CHOOSE i \in hits : \A j \in hits : i <= j].info,
                  fault |-> FALSE]

\* xcb_randr_get_crtc_info_reply once the id is resolved and the snapshot
\* pointer is set; info is the real library's reply (NULL on error).
\* ret is the returned reply, fault a null dereference.
CrtcReplyFor(obj, crtcId, info) ==
    IF SplitBits(crtcId) = U32(0) THEN
        IF \E i \in 1..Len(obj.fake_outputs) :
               ClearSplit(obj.fake_outputs[i].info.crtc) = crtcId
        THEN IF info = NULL THEN [ret |-> NULL, fault |-> TRUE]
             ELSE [ret |-> [info EXCEPT !.mode = None, !.x = 0, !.y = 0,
                                        !.width = 0, !.height = 0],
                   fault |-> FALSE]
        ELSE [ret |-> info, fault |-> FALSE]
    ELSE
        LET hits == {i \in 1..Len(obj.fake_crtcs) : obj.fake_crtcs[i].xid = crtcId}
        IN  IF hits = {} THEN [ret |-> NULL, fault |-> FALSE]
            ELSE [ret |-> obj.fake_crtcs[CHOOSE i \in hits : \A j \in hits : i <= j].info,
                  fault |-> FALSE]

\* a variant of the output reply that finds a synthetic id by its parent alone
OutputReplyForAnyPiece(obj, outputId, outputInfo) ==
    IF SplitBits(outputId) = U32(0) THEN
        IF xid_in_list(obj.fake_outputs, outputId)
        THEN IF outputInfo = NULL THEN [ret |-> NULL, fault |-> TRUE]
             ELSE [ret |-> [outputInfo EXCEPT
                              !.connection = XCB_RANDR_CONNECTION_DISCONNECTED],
                   fault |-> FALSE]
        ELSE [ret |-> outputInfo, fault |-> FALSE]
    ELSE
        LET hits == {i \in 1..Len(obj.fake_outputs) :
                        obj.fake_outputs[i].parent_xid = ClearSplit(outputId)}
        IN  IF hits = {} THEN [ret |-> NULL, fault |-> FALSE]
            ELSE [ret |-> obj.fake_outputs[CHOOSE i \in hits : \A j \in hits : i <= j].info,
                  fault |-> FALSE]

\* xcb_randr_get_output_info_reply once the id is resolved and the snapshot
\* pointer is set
OutputReplyFor(obj, outputId, outputInfo) ==
    IF SplitBits(outputId) = U32(0) THEN
        IF xid_in_list(obj.fake_outputs, outputId)
        THEN IF outputInfo = NULL THEN [ret |-> NULL, fault |-> TRUE]
             ELSE [ret |-> [outputInfo EXCEPT
                              !.connection = XCB_RANDR_CONNECTION_DISCONNECTED],
                   fault |-> FALSE]
        ELSE [ret |-> outputInfo, fault |-> FALSE]
    ELSE
        LET hits == {i \in 1..Len(obj.fake_outputs) : obj.fake_outputs[i].xid = outputId}
        IN  IF hits = {} THEN [ret |-> NULL, fault |-> FALSE]
            ELSE [ret |-> obj.fake_outputs[CHOOSE i \in hits : \A j \in hits : i <= j].info,
                  fault |-> FALSE]


(***************************************************************************)
(* State.                                                                   *)
(***************************************************************************)
VARIABLES
    hw,                   \* the backend's display configuration, index in HwConfigs
    fakeScreenResources,  \* the global pointer: ptr is "null", "live" or "freed"
                          \* (deleted, still pointed to); obj what it points to
    crtc_info_cookies,    \* pending CRTC-info queries, newest first
    output_info_cookies,  \* pending output-info queries, newest first
    requests,             \* the connection: requests[s] is the detail request with
                          \* sequence number s: kind, id the client passed, id sent
                          \* to the server, and whether its reply is still unread
    crashed,              \* the process was ended by a signal or abort()
    last,                 \* the last library call and what it returned
    sp                    \* input and result of a planner run (SplitSpec)

vars == <<hw, fakeScreenResources, crtc_info_cookies, output_info_cookies,
          requests, crashed, last, sp>>

\* most detail queries one run issues
MaxSeq == 2

Hw == HwConfigs[hw]

\* ids a client asks about: real ones and ones it was handed by an earlier reply
OutputIds == {O1, augmentXID(O1, U32(2))}
CrtcIds == {C1, augmentXID(C1, U32(2))}

\* The process is followed while its behaviour is defined: until a signal or
\* abort() ends it, or it has read through the dangling pointer.
Running == ~crashed /\ fakeScreenResources.ptr # "freed"

NoObject == FakeScreenResources(NULL, <<>>, <<>>, <<>>)
NoCall == [op |-> "none"]
NoSplit == [pc |-> "idle"]

Init ==
    /\ hw \in 1..Len(HwConfigs)
    /\ fakeScreenResources = [ptr |-> "null", obj |-> NoObject]
    /\ crtc_info_cookies = <<>>
    /\ output_info_cookies = <<>>
    /\ requests = <<>>
    /\ crashed = FALSE
    /\ last = NoCall
    /\ sp = NoSplit

(***************************************************************************)
(* Screen resources.                                                        *)
(***************************************************************************)
\* open_configuration: 0 when the file is mapped, 1 when it cannot be read.
\* file is the index in ConfigFiles of what the path holds, 0 for no readable file.
open_configuration(file) == IF file = 0 THEN 1 ELSE 0

\* what a read outside the mapped file does
PastEnd == {"zeros", "fault"}
\* what a use of freed heap memory does
HeapUse == {"stale", "fault"}

\* the outcomes that can differ in the current state: the mapped file is read
\* only when it was opened and the real reply exists, freed memory only
\* through a dangling pointer
PastEndFor(file, resOk) == IF file # 0 /\ resOk THEN PastEnd ELSE {"zeros"}
HeapUseFor == IF fakeScreenResources.ptr = "freed" THEN HeapUse ELSE {"stale"}

\* the lists the loop of updateFakeResources builds for a display
\* configuration and a configuration file
FakeLists[h \in 1..Len(HwConfigs), file \in 1..Len(ConfigFiles), pastEnd \in PastEnd] ==
    HandleOutputs(ConfigFiles[file], HwConfigs[h], RealResources(HwConfigs[h]), 1,
                  pastEnd, NoFakes)

\* the snapshot installed at the end of updateFakeResources
Installed(old, res, r) ==
    IF r.fault THEN [fsr |-> old, fault |-> TRUE]
    ELSE [fsr |-> [ptr |-> "live",
                   obj |-> FakeScreenResources(res, r.acc.fake_crtcs,
                               r.acc.fake_outputs, r.acc.fake_modes)],
          fault |-> FALSE]

\* updateFakeResources: the new value of fakeScreenResources, or a fault.
\* res is the real reply (NULL on error).
updateFakeResources(old, res, file, pastEnd) ==
    IF open_configuration(file) # 0 THEN [fsr |-> old, fault |-> FALSE]
    ELSE IF res = NULL THEN [fsr |-> old, fault |-> TRUE]
    ELSE Installed(old, res, FakeLists[hw, file, pastEnd])

\* if(fakeScreenResources) deleteObj(fakeScreenResources): the pointer is not
\* reset.  Deleting an already deleted object is a double free: heapUse says
\* whether the allocator aborts ("fault") or the freed memory still reads as
\* it was left ("stale").
DeleteOld(fsr, heapUse) ==
    IF fsr.ptr = "null" THEN [fsr |-> fsr, fault |-> FALSE]
    ELSE IF fsr.ptr = "live" THEN [fsr |-> [fsr EXCEPT !.ptr = "freed"], fault |-> FALSE]
    ELSE [fsr |-> fsr, fault |-> heapUse = "fault"]

\* fakeScreenResources->makeReturnValue() through the global pointer
ReturnThrough(fsr, heapUse) ==
    IF fsr.ptr = "null" THEN [ret |-> NULL, fault |-> TRUE]
    ELSE IF fsr.ptr = "freed" /\ heapUse = "fault" THEN [ret |-> NULL, fault |-> TRUE]
    ELSE [ret |-> makeReturnValue(fsr.obj), fault |-> FALSE]

\* a signal or abort() ends the process: its memory is gone, only the record
\* of the call that ended it is kept
Crash(call) ==
    /\ crashed' = TRUE
    /\ fakeScreenResources' = [ptr |-> "null", obj |-> NoObject]
    /\ crtc_info_cookies' = <<>>
    /\ output_info_cookies' = <<>>
    /\ requests' = <<>>
    /\ last' = call
    /\ UNCHANGED <<hw, sp>>

\* the end of a screen-resources reply function: del, upd and out are what
\* the deletion, updateFakeResources and makeReturnValue() did
ScreenResourcesReplyEnd(call, del, upd, out) ==
    IF del.fault \/ upd.fault \/ out.fault
    THEN Crash(call)
    ELSE /\ fakeScreenResources' = upd.fsr
         /\ last' = [call EXCEPT !.ret = out.ret]
         /\ UNCHANGED <<hw, crtc_info_cookies, output_info_cookies, requests,
                        crashed, sp>>

ScreenResourcesReplyUpdated(call, del, upd, heapUse) ==
    ScreenResourcesReplyEnd(call, del, upd, ReturnThrough(upd.fsr, heapUse))

ScreenResourcesReplyDeleted(call, del, screen_resources, file, pastEnd, heapUse) ==
    ScreenResourcesReplyUpdated(call, del,
        updateFakeResources(del.fsr, screen_resources, file, pastEnd), heapUse)

\* body shared by xcb_randr_get_screen_resources_reply and ..._current_reply
ScreenResourcesReplyBody(file, resOk, pastEnd, heapUse) ==
    /\ Running
    /\ ScreenResourcesReplyDeleted(
           [op |-> "screen_resources_reply", file |-> file, resOk |-> resOk,
            before |-> fakeScreenResources.ptr, ret |-> NULL],
           DeleteOld(fakeScreenResources, heapUse),
           IF resOk THEN RealResources(Hw) ELSE NULL,
           file, pastEnd, heapUse)

xcb_randr_get_screen_resources_reply ==
    \E file \in 0..Len(ConfigFiles), resOk \in BOOLEAN :
        \E pastEnd \in PastEndFor(file, resOk), heapUse \in HeapUseFor :
            ScreenResourcesReplyBody(file, resOk, pastEnd, heapUse)

xcb_randr_get_screen_resources_current_reply ==
    \E file \in 0..Len(ConfigFiles), resOk \in BOOLEAN :
        \E pastEnd \in PastEndFor(file, resOk), heapUse \in HeapUseFor :
            ScreenResourcesReplyBody(file, resOk, pastEnd, heapUse)


(***************************************************************************)
(* Detail queries.                                                          *)
(***************************************************************************)
\* the cookie the real library hands out: the connection's next sequence number
NextSequence == Len(requests) + 1

\* _xcb_randr_get_crtc_info / _xcb_randr_get_output_info (and _unchecked) of
\* the real library: the request goes out under the next sequence number
SendRequest(kind, id) ==
    Append(requests, [kind |-> kind, id |-> id, sent |-> ClearSplit(id),
                      unread |-> TRUE, replied |-> FALSE])

\* _xcb_randr_get_crtc_info_reply / _xcb_randr_get_output_info_reply of the
\* real library for a cookie: the reply of the request while it is unread and
\* the server answered it (ok), NULL otherwise
RealReply(kind, sequence, ok) ==
    IF requests[sequence].unread /\ ok
    THEN IF kind = "crtc" THEN RealCrtcInfo(Hw, requests[sequence].sent)
                          ELSE RealOutputInfo(Hw, requests[sequence].sent)
    ELSE NULL

\* the connection after a reply function was called for a cookie: fetched says
\* whether it called the real library's reply function
Replied(sequence, fetched) ==
    [requests EXCEPT ![sequence].replied = TRUE,
                     ![sequence].unread = IF fetched THEN FALSE ELSE @]

IssueBody(kind, id) ==
    /\ Running
    /\ NextSequence <= MaxSeq
    /\ requests' = SendRequest(kind, id)
    /\ IF kind = "crtc"
       THEN /\ crtc_info_cookies' = AssocInsert(crtc_info_cookies, NextSequence, id)
            /\ UNCHANGED output_info_cookies
       ELSE /\ output_info_cookies' = AssocInsert(output_info_cookies, NextSequence, id)
            /\ UNCHANGED crtc_info_cookies
    /\ last' = [op |-> "get_info", kind |-> kind]
    /\ UNCHANGED <<hw, fakeScreenResources, crashed, sp>>

xcb_randr_get_crtc_info == \E crtc \in CrtcIds : IssueBody("crtc", crtc)

xcb_randr_get_crtc_info_unchecked ==
    \E crtc \in CrtcIds : IssueBody("crtc", crtc)

xcb_randr_get_output_info ==
    \E output \in OutputIds : IssueBody("output", output)

xcb_randr_get_output_info_unchecked ==
    \E output \in OutputIds : IssueBody("output", output)

\* The reply functions after the cookie was found in the table: the lookup of
\* the id in the snapshot.  info is the real reply, fetched only for a real id
\* when the pointer is set.  Reading through a deleted snapshot faults or sees
\* what was left there (heapUse).
ResolvedReply(kind, fsr, id, info, heapUse) ==
    IF fsr.ptr = "null" THEN [ret |-> NULL, fault |-> FALSE]
    ELSE IF fsr.ptr = "freed" /\ heapUse = "fault" THEN [ret |-> NULL, fault |-> TRUE]
    ELSE IF kind = "crtc" THEN CrtcReplyFor(fsr.obj, id, info)
    ELSE OutputReplyFor(fsr.obj, id, info)

\* does the reply function fetch the real reply for a resolved id?
FetchesReal(fsr, id) == fsr.ptr # "null" /\ SplitBits(id) = U32(0)

\* the end of a reply function whose cookie was found at position item of the
\* table: the pair is erased and the reply res returned
ReplyKnown(kind, pairs, sequence, item, fetched, call, res) ==
    IF res.fault THEN Crash(call)
    ELSE /\ requests' = Replied(sequence, fetched)
         /\ last' = [call EXCEPT !.ret = res.ret]
         /\ IF kind = "crtc"
            THEN /\ crtc_info_cookies' = AssocErase(pairs, item)
                 /\ UNCHANGED output_info_cookies
            ELSE /\ output_info_cookies' = AssocErase(pairs, item)
                 /\ UNCHANGED crtc_info_cookies
         /\ UNCHANGED <<fakeScreenResources, crashed, hw, sp>>

\* a variant of the unknown-cookie path that answers NULL itself
ReplyUnknownNull(sequence, call) ==
    /\ requests' = Replied(sequence, FALSE)
    /\ last' = [call EXCEPT !.ret = NULL]
    /\ UNCHANGED <<crtc_info_cookies, output_info_cookies, fakeScreenResources,
                   crashed, hw, sp>>

\* the end of a reply function whose cookie is not in the table: the real
\* library's reply function answers
ReplyUnknown(sequence, call) ==
    /\ requests' = Replied(sequence, TRUE)
    /\ last' = [call EXCEPT !.ret = call.real]
    /\ UNCHANGED <<crtc_info_cookies, output_info_cookies, fakeScreenResources,
                   crashed, hw, sp>>

\* the record of a reply call: asked is the id the cookie's query was issued
\* with and first whether this is the first reply call for the cookie; real is
\* what the real library's reply function holds for the cookie, fetched
\* whether it was called
ReplyCall(kind, sequence, item, id, fetched, real) ==
    [op |-> "info_reply", kind |-> kind, sequence |-> sequence,
     asked |-> requests[sequence].id, first |-> ~requests[sequence].replied,
     known |-> item # 0, id |-> id, fetched |-> fetched, real |-> real, ret |-> NULL]

ReplyWith(kind, pairs, sequence, item, id, fetched, real, heapUse) ==
    IF item = 0
    THEN ReplyUnknown(sequence, ReplyCall(kind, sequence, item, id, fetched, real))
    ELSE ReplyKnown(kind, pairs, sequence, item, fetched,
             ReplyCall(kind, sequence, item, id, fetched, real),
             ResolvedReply(kind, fakeScreenResources, id,
                           IF fetched THEN real ELSE NULL, heapUse))

ReplyFound(kind, pairs, sequence, item, id, ok, heapUse) ==
    ReplyWith(kind, pairs, sequence, item, id,
        item = 0 \/ FetchesReal(fakeScreenResources, id),
        RealReply(kind, sequence, ok), heapUse)

\* the value of the pair at position item of a table (no pair: no id)
ValueAt(pairs, item) == IF item = 0 THEN None ELSE pairs[item].value

ReplyLookup(kind, pairs, sequence, item, ok, heapUse) ==
    ReplyFound(kind, pairs, sequence, item, ValueAt(pairs, item), ok, heapUse)

\* body shared by xcb_randr_get_crtc_info_reply and xcb_randr_get_output_info_reply
ReplyBody(kind, pairs, sequence, ok, heapUse) ==
    /\ Running
    /\ ReplyLookup(kind, pairs, sequence, AssocFind(pairs, sequence), ok, heapUse)

xcb_randr_get_crtc_info_reply ==
    \E sequence \in 1..Len(requests), ok \in BOOLEAN, heapUse \in HeapUseFor :
        /\ requests[sequence].kind = "crtc"
        /\ ReplyBody("crtc", crtc_info_cookies, sequence, ok, heapUse)

xcb_randr_get_output_info_reply ==
    \E sequence \in 1..Len(requests), ok \in BOOLEAN, heapUse \in HeapUseFor :
        /\ requests[sequence].kind = "output"
        /\ ReplyBody("output", output_info_cookies, sequence, ok, heapUse)

Next ==
    \/ xcb_randr_get_screen_resources_reply
    \/ xcb_randr_get_screen_resources_current_reply
    \/ xcb_randr_get_crtc_info
    \/ xcb_randr_get_crtc_info_unchecked
    \/ xcb_randr_get_output_info
    \/ xcb_randr_get_output_info_unchecked
    \/ xcb_randr_get_crtc_info_reply
    \/ xcb_randr_get_output_info_reply

Spec == Init /\ [][Next]_vars


(***************************************************************************)
(* The split planner on its own: _config_foreach_split applied to a plan    *)
(* and a target rectangle drawn from bounded sets.                          *)
(***************************************************************************)
\* largest split offset and largest rectangle side and origin tried
MaxSplit == 3
MaxSide == 2
MaxOrigin == 1

Splits(subplans) ==
    {<<NodeH(s)>> \o a \o b : s \in 0..MaxSplit, a \in subplans, b \in subplans}
    \cup {<<NodeV(s)>> \o a \o b : s \in 0..MaxSplit, a \in subplans, b \in subplans}

\* plans of depth at most 2, in document order
Plans1 == {<<NodeN>>} \cup Splits({<<NodeN>>})
Plans2 == {<<NodeN>>} \cup Splits(Plans1)

SplitInit ==
    /\ hw = 1
    /\ fakeScreenResources = [ptr |-> "null", obj |-> NoObject]
    /\ crtc_info_cookies = <<>>
    /\ output_info_cookies = <<>>
    /\ requests = <<>>
    /\ crashed = FALSE
    /\ last = NoCall
    /\ \E plan \in Plans2, x \in 0..MaxOrigin, y \in 0..MaxOrigin,
          width \in 1..MaxSide, height \in 1..MaxSide :
           sp = [pc |-> "start", plan |-> plan, x |-> x, y |-> y,
                 width |-> width, height |-> height, leaves |-> <<>>]

\* one call of _config_foreach_split on the whole plan, for the first output
\* of the first display configuration
SplitRun ==
    /\ sp.pc = "start"
    /\ sp' = [sp EXCEPT !.pc = "done",
                !.leaves = config_foreach_split(sp.plan, 1, U32(sp.x), U32(sp.y),
                               U32(sp.width), U32(sp.height),
                               [resources |-> RealResources(Hw), output |-> O1,
                                output_info |-> RealOutputInfo(Hw, O1),
                                crtc_info |-> RealCrtcInfo(Hw, C1)],
                               NoFakes).acc.leaves]
    /\ UNCHANGED <<hw, fakeScreenResources, crtc_info_cookies, output_info_cookies,
                   requests, crashed, last>>

SplitSpec == SplitInit /\ [][SplitRun]_vars

(***************************************************************************)
(* The identifier codec on its own: augmentXID applied to an id and a       *)
(* counter drawn from bounded sets, then the two decoding expressions of    *)
(* fakexrandr.h applied to the result.                                      *)
(***************************************************************************)
\* number of values the bit range of XID_SPLIT_MASK holds
IndexRange == MaskTopBit \div MaskLowBit

\* ids tried: low bits at their ends, bit 31 clear and set, and (third high
\* half) one id with a bit of the reserved range set
RealIdSamples ==
    {<<hi, lo>> : hi \in {0, 1, MaskLowBit - 1, MaskLowBit, MaskTopBit,
                          MaskTopBit + MaskLowBit - 1},
                  lo \in {0, 63, 66, Half - 1}}

CodecInit ==
    /\ hw = 1
    /\ fakeScreenResources = [ptr |-> "null", obj |-> NoObject]
    /\ crtc_info_cookies = <<>>
    /\ output_info_cookies = <<>>
    /\ requests = <<>>
    /\ crashed = FALSE
    /\ last = NoCall
    /\ \E real \in RealIdSamples, index \in 0..IndexRange :
           sp = [pc |-> "encode", real |-> real, index |-> index, xid |-> None,
                 out_real |-> None, out_index |-> 0]

\* augmentXID(real, index)
CodecEncode ==
    /\ sp.pc = "encode"
    /\ sp' = [sp EXCEPT !.pc = "encoded", !.xid = augmentXID(sp.real, U32(sp.index))]
    /\ UNCHANGED <<hw, fakeScreenResources, crtc_info_cookies, output_info_cookies,
                   requests, crashed, last>>

\* xid & ~XID_SPLIT_MASK and (xid & XID_SPLIT_MASK) >> XID_SPLIT_SHIFT
CodecDecode ==
    /\ sp.pc = "encoded"
    /\ sp' = [sp EXCEPT !.pc = "decoded", !.out_real = ClearSplit(sp.xid),
                                          !.out_index = SplitIndex(sp.xid)]
    /\ UNCHANGED <<hw, fakeScreenResources, crtc_info_cookies, output_info_cookies,
                   requests, crashed, last>>

CodecNext == CodecEncode \/ CodecDecode

CodecSpec == CodecInit /\ [][CodecNext]_vars

(***************************************************************************)
(* The matcher's scan on its own: the loop of config_handle_output, one     *)
(* iteration per step, over streams whose size fields need not be what the  *)
(* management script writes.                                                *)
(***************************************************************************)
\* iterations followed for one scan
MaxIter == 3

\* a record with the size field replaced
Resized(rec, size) == [rec EXCEPT !.size = size]

\* The streams scanned: empty; two files as written by the management
\* script; a first record whose size field is 0xFFFFFFFC; a first record
\* whose size field points far behind the end of the file.
ScanFiles == <<
    <<>>,
    <<Record(<<"a", "a">>, 4, 2, <<NodeV(2), NodeN, NodeN>>)>>,
    <<Record(<<"a", "a">>, 2, 2, <<NodeN>>),
      Record(<<"b", "b">>, 4, 2, <<NodeH(1), NodeN, NodeN>>)>>,
    <<Resized(Record(<<"a", "a">>, 2, 2, <<NodeN>>), <<Half - 1, Half - 4>>),
      Record(<<"b", "b">>, 4, 2, <<NodeN>>)>>,
    <<Resized(Record(<<"a", "a">>, 2, 2, <<NodeN>>), <<0, Half - 1>>),
      Record(<<"b", "b">>, 4, 2, <<NodeN>>)>>
>>

\* mmap in open_configuration: a mapping of length 0 is refused, the
\* configuration is then treated as unreadable and nothing is scanned
MapStream(config_file_size) == IF config_file_size = 0 THEN 1 ELSE 0

\* the monitors searched for: EDID, CRTC size, and whether the output info
\* can be fetched
ScanTargets ==
    [edid : {<<"a", "a">>, <<"b", "b">>, <<"c", "c">>}, width : {2, 4}, height : {2},
     info_ok : BOOLEAN]

NoRead == <<0, 0>>

ScanInit ==
    /\ hw = 1
    /\ fakeScreenResources = [ptr |-> "null", obj |-> NoObject]
    /\ crtc_info_cookies = <<>>
    /\ output_info_cookies = <<>>
    /\ requests = <<>>
    /\ crashed = FALSE
    /\ last = NoCall
    /\ \E file \in DOMAIN ScanFiles, target \in ScanTargets :
           sp = [pc |-> "open", file |-> file, target |-> target, off |-> 0,
                 iterations |-> 0, advance |-> 0, read |-> NoRead, ret |-> 0]

ScanFile == ScanFiles[sp.file]

\* open_configuration, then the initialisation of the loop
ScanOpen ==
    /\ sp.pc = "open"
    /\ sp' = [sp EXCEPT !.pc = IF MapStream(FileSize(ScanFile)) # 0 THEN "unreadable"
                                                                    ELSE "loop"]
    /\ UNCHANGED <<hw, fakeScreenResources, crtc_info_cookies, output_info_cookies,
                   requests, crashed, last>>

\* the loop condition fails: return 0
ScanExit ==
    /\ sp.pc = "loop"
    /\ ~InScan(sp.off, FileSize(ScanFile))
    /\ sp' = [sp EXCEPT !.pc = "done", !.ret = 0]
    /\ UNCHANGED <<hw, fakeScreenResources, crtc_info_cookies, output_info_cookies,
                   requests, crashed, last>>

\* The loop body for the header hdr read at the cursor: the header's bytes
\* are read; on an EDID match the infos are fetched and, when the size
\* matches too, the plan is read and 1 returned; otherwise the cursor moves.
ScanBody(s, hdr) ==
    IF hdr = [fault |-> TRUE]
    THEN [s EXCEPT !.pc = "crashed", !.iterations = @ + 1,
                   !.read = <<s.off, s.off + HeaderBytes>>]
    ELSE IF hdr.edid = s.target.edid /\ ~s.target.info_ok
    THEN [s EXCEPT !.pc = "done", !.ret = 0, !.iterations = @ + 1,
                   !.read = <<s.off, s.off + HeaderBytes>>]
    ELSE IF /\ hdr.edid = s.target.edid
            /\ U32(s.target.width) = hdr.width /\ U32(s.target.height) = hdr.height
    THEN [s EXCEPT !.pc = "done", !.ret = 1, !.iterations = @ + 1,
                   !.read = <<s.off, s.off + HeaderBytes + PayloadBytes(hdr.payload)>>]
    ELSE [s EXCEPT !.off = NextCursor(s.off, hdr.size), !.iterations = @ + 1,
                   !.advance = NextCursor(s.off, hdr.size) - s.off,
                   !.read = <<s.off, s.off + HeaderBytes>>]

\* one iteration of the loop
ScanIterate ==
    /\ sp.pc = "loop"
    /\ sp.iterations < MaxIter
    /\ InScan(sp.off, FileSize(ScanFile))
    /\ \E pastEnd \in PastEnd : sp' = ScanBody(sp, ReadHeader(ScanFile, sp.off, pastEnd))
    /\ UNCHANGED <<hw, fakeScreenResources, crtc_info_cookies, output_info_cookies,
                   requests, crashed, last>>

ScanNext == ScanOpen \/ ScanExit \/ ScanIterate

ScanSpec == ScanInit /\ [][ScanNext]_vars

(***************************************************************************)
(* Properties.                                                              *)
(***************************************************************************)
\* a screen-resources reply function has just returned with a snapshot installed
RebuildDone ==
    /\ last.op = "screen_resources_reply"
    /\ ~crashed
    /\ fakeScreenResources.ptr = "live"

\* a detail reply function has just returned for a cookie found in its table
\* while a snapshot is installed
ReplyDone(kind) ==
    /\ last.op = "info_reply"
    /\ last.kind = kind
    /\ last.known
    /\ ~crashed
    /\ fakeScreenResources.ptr = "live"

Snapshot == fakeScreenResources.obj

\* C1: when the configuration cannot be opened, a screen-resources reply
\* installs a valid snapshot without virtual objects and returns exactly the
\* real backend's outputs, CRTCs and modes.
C1_UnreadableConfigurationPassesThrough ==
    (last.op = "screen_resources_reply" /\ last.file = 0 /\ last.resOk)
        => /\ ~crashed
           /\ fakeScreenResources.ptr = "live"
           /\ Snapshot.fake_outputs = <<>>
           /\ Snapshot.fake_crtcs = <<>>
           /\ Snapshot.fake_modes = <<>>
           /\ last.ret = RealResources(Hw)


\* does the point lie in the leaf rectangle <<x, y, width, height>>?
Covers(leaf, px, py) ==
    /\ U32Le(leaf[1], px) /\ U32Lt(U32Sub(px, leaf[1]), leaf[3])
    /\ U32Le(leaf[2], py) /\ U32Lt(U32Sub(py, leaf[2]), leaf[4])

\* does the span [lo, lo + len) lie in [from, from + size)?
SpanWithin(lo, len, from, size) ==
    /\ U32Le(from, lo)
    /\ U32Le(len, size)
    /\ U32Le(U32Sub(lo, from), U32Sub(size, len))

\* a leaf rectangle is empty or lies in the target rectangle
LeafWithin(leaf) ==
    \/ leaf[3] = U32(0)
    \/ leaf[4] = U32(0)
    \/ /\ SpanWithin(leaf[1], leaf[3], U32(sp.x), U32(sp.width))
       /\ SpanWithin(leaf[2], leaf[4], U32(sp.y), U32(sp.height))

\* C2: for any plan and target rectangle the leaf rectangles tile the
\* rectangle exactly: every point of it lies in exactly one leaf and no leaf
\* reaches outside it.
C2_LeavesTileTheRectangle ==
    sp.pc = "done" =>
        /\ \A px \in sp.x..(sp.x + sp.width - 1), py \in sp.y..(sp.y + sp.height - 1) :
               Cardinality({i \in DOMAIN sp.leaves :
                               Covers(sp.leaves[i], U32(px), U32(py))}) = 1
        /\ \A i \in DOMAIN sp.leaves : LeafWithin(sp.leaves[i])

\* the record the matcher is to select for an output: the first one, in
\* stream order, with the output's fingerprint and the size of its CRTC
\* (0: none, also when there is no fingerprint or no CRTC info)
CrtcInfoOf(h, output) ==
    IF RealOutputInfo(h, output) = NULL THEN NULL
    ELSE RealCrtcInfo(h, RealOutputInfo(h, output).crtc)

RecordsFor(file, h, output) ==
    {i \in 1..Len(file) :
        /\ h.edid[output] # <<>>
        /\ file[i].edid = get_output_edid(h, output).edid
        /\ CrtcInfoOf(h, output) # NULL
        /\ file[i].width = U32(CrtcInfoOf(h, output).width)
        /\ file[i].height = U32(CrtcInfoOf(h, output).height)}

ExpectedRecord(file, h, output) ==
    IF RecordsFor(file, h, output) = {} THEN 0
    ELSE CHOOSE i \in RecordsFor(file, h, output) :
             \A j \in RecordsFor(file, h, output) : i <= j

LeafCount(payload) == Cardinality({i \in DOMAIN payload : payload[i].tag = "N"})

\* the virtual outputs and CRTCs of the snapshot that belong to a real output
OutputsOf(output) ==
    LET Mine(fo) == fo.parent_xid = output
    IN  SelectSeq(Snapshot.fake_outputs, Mine)

CrtcsOf(output) ==
    LET Mine(fc) == \E i \in DOMAIN Snapshot.fake_outputs :
                        /\ Snapshot.fake_outputs[i].parent_xid = output
                        /\ Snapshot.fake_outputs[i].xid = fc.info.outputs[1]
    IN  SelectSeq(Snapshot.fake_crtcs, Mine)

LastFile == ConfigFiles[last.file]

\* C3: a matched monitor whose plan has L leaves gets exactly L virtual
\* outputs and exactly L virtual CRTCs in the snapshot.
C3_LeafCount ==
    RebuildDone =>
        \A i \in DOMAIN Hw.outputs :
            ExpectedRecord(LastFile, Hw, Hw.outputs[i]) # 0 =>
                /\ Len(OutputsOf(Hw.outputs[i]))
                     = LeafCount(LastFile[ExpectedRecord(LastFile, Hw, Hw.outputs[i])].payload)
                /\ Len(CrtcsOf(Hw.outputs[i]))
                     = LeafCount(LastFile[ExpectedRecord(LastFile, Hw, Hw.outputs[i])].payload)

\* a rebuild matched a monitor with a plan of three leaves
C3_Witness ==
    /\ RebuildDone
    /\ \E i \in DOMAIN Hw.outputs :
           /\ ExpectedRecord(LastFile, Hw, Hw.outputs[i]) # 0
           /\ LeafCount(LastFile[ExpectedRecord(LastFile, Hw, Hw.outputs[i])].payload) = 3
           /\ Len(OutputsOf(Hw.outputs[i])) = 3
           /\ Len(CrtcsOf(Hw.outputs[i])) = 3

\* C4: the first reply fetch for a cookie finds the cookie's record and
\* resolves to the id its query was issued with, whatever other queries of
\* the kind are outstanding and whatever the order of the fetches.
C4_FetchResolvesOwnIdentifier ==
    (last.op = "info_reply" /\ last.first) =>
        (last.known /\ last.id = last.asked)

PendingOf(kind) == IF kind = "crtc" THEN crtc_info_cookies ELSE output_info_cookies

\* a reply was fetched while a later query of the same kind, for another id,
\* was still outstanding
C4_Witness ==
    /\ last.op = "info_reply"
    /\ last.first
    /\ ~crashed
    /\ \E i \in DOMAIN PendingOf(last.kind) :
           /\ PendingOf(last.kind)[i].key > last.sequence
           /\ PendingOf(last.kind)[i].value # last.id

\* a real id is the parent of a virtual output of the snapshot
IsSplitParent(id) ==
    \E i \in DOMAIN Snapshot.fake_outputs : Snapshot.fake_outputs[i].parent_xid = id

\* a real CRTC id owns a virtual CRTC of the snapshot
OwnsVirtualController(id) ==
    \E i \in DOMAIN Snapshot.fake_crtcs : ClearSplit(Snapshot.fake_crtcs[i].xid) = id

IsReal(id) == SplitIndex(id) = 0

\* C5: an output-info reply for a real output that is the parent of a
\* virtual output of the snapshot is the backend's reply with the connection
\* set to DISCONNECTED and every other field untouched.
C5_SplitParentDisconnected ==
    (ReplyDone("output") /\ IsReal(last.id) /\ IsSplitParent(last.id)
     /\ last.real # NULL) =>
        last.ret = [RealOutputInfo(Hw, last.id) EXCEPT
                      !.connection = XCB_RANDR_CONNECTION_DISCONNECTED]

\* a connected split parent was reported disconnected
C5_Witness ==
    /\ ReplyDone("output") /\ IsReal(last.id) /\ IsSplitParent(last.id)
    /\ last.real # NULL
    /\ last.real.connection = XCB_RANDR_CONNECTION_CONNECTED
    /\ last.ret.connection = XCB_RANDR_CONNECTION_DISCONNECTED

\* C6: for every real output the snapshot holds the virtual objects of the
\* plan of the first record whose fingerprint and size both match, and none
\* when no record matches both; a record of the right fingerprint and another
\* size is passed over.
C6_FirstExactMatch ==
    RebuildDone =>
        \A i \in DOMAIN Hw.outputs :
            IF ExpectedRecord(LastFile, Hw, Hw.outputs[i]) = 0
            THEN OutputsOf(Hw.outputs[i]) = <<>> /\ CrtcsOf(Hw.outputs[i]) = <<>>
            ELSE OutputsOf(Hw.outputs[i])
                   = ApplyPlan(LastFile[ExpectedRecord(LastFile, Hw, Hw.outputs[i])],
                               RealResources(Hw), Hw.outputs[i],
                               RealOutputInfo(Hw, Hw.outputs[i]),
                               CrtcInfoOf(Hw, Hw.outputs[i]), NoFakes).fake_outputs

\* a rebuild passed over a record of the right fingerprint and another size,
\* applied a later record and left a still later matching record alone
C6_Witness ==
    /\ RebuildDone
    /\ \E i \in DOMAIN Hw.outputs :
         \E j, k \in DOMAIN LastFile :
           /\ ExpectedRecord(LastFile, Hw, Hw.outputs[i]) # 0
           /\ j < ExpectedRecord(LastFile, Hw, Hw.outputs[i])
           /\ LastFile[j].edid = get_output_edid(Hw, Hw.outputs[i]).edid
           /\ k > ExpectedRecord(LastFile, Hw, Hw.outputs[i])
           /\ k \in RecordsFor(LastFile, Hw, Hw.outputs[i])
           /\ Len(OutputsOf(Hw.outputs[i])) = 3

\* C7: a reply fetch whose cookie is in no table returns what the real
\* library's reply function returns and leaves the tables and the snapshot
\* as they were.
C7_UnknownSequenceForwarded ==
    [][(last'.op = "info_reply" /\ ~last'.known /\ last' # last) =>
          /\ last'.ret = last'.real
          /\ last'.ret \in {NULL, RealOutputInfo(Hw, requests[last'.sequence].sent),
                            RealCrtcInfo(Hw, requests[last'.sequence].sent)}
          /\ (~requests[last'.sequence].unread => last'.ret = NULL)
          /\ crtc_info_cookies' = crtc_info_cookies
          /\ output_info_cookies' = output_info_cookies
          /\ fakeScreenResources' = fakeScreenResources
          /\ ~crashed']_vars

\* a fetch with an unknown cookie returned the real library's reply
C7_Witness ==
    /\ last.op = "info_reply"
    /\ ~last.known
    /\ last.ret # NULL
    /\ last.ret = last.real

\* the virtual objects of a kind in the snapshot
FakesOf(kind) == IF kind = "crtc" THEN Snapshot.fake_crtcs ELSE Snapshot.fake_outputs

\* C8: a detail reply for a synthetic id is the info of a virtual object of
\* the snapshot with that id, without a fetch from the backend; when the
\* snapshot holds no such object it is the null reply.
C8_SyntheticIdFromSnapshot ==
    (last.op = "info_reply" /\ last.known /\ ~crashed /\ ~IsReal(last.id)) =>
        /\ ~last.fetched
        /\ IF \E i \in DOMAIN FakesOf(last.kind) : FakesOf(last.kind)[i].xid = last.id
           THEN \E i \in DOMAIN FakesOf(last.kind) :
                    /\ FakesOf(last.kind)[i].xid = last.id
                    /\ last.ret = FakesOf(last.kind)[i].info
           ELSE last.ret = NULL

\* a reply for a synthetic id that the snapshot, which holds other virtual
\* objects of the kind, does not hold (any more): not found
C8_Witness ==
    /\ last.op = "info_reply" /\ last.known /\ ~crashed /\ ~IsReal(last.id)
    /\ fakeScreenResources.ptr = "live"
    /\ FakesOf(last.kind) # <<>>
    /\ \A i \in DOMAIN FakesOf(last.kind) : FakesOf(last.kind)[i].xid # last.id
    /\ last.ret = NULL

\* C9: a CRTC-info reply for a real CRTC that owns a virtual CRTC of the
\* snapshot is the backend's reply with mode, x, y, width and height zero;
\* for a real CRTC that owns none it is the backend's reply.
C9_OwnerGeometryHidden ==
    (ReplyDone("crtc") /\ IsReal(last.id) /\ last.real # NULL) =>
        last.ret = IF OwnsVirtualController(last.id)
                   THEN [RealCrtcInfo(Hw, last.id) EXCEPT
                           !.mode = None, !.x = 0, !.y = 0, !.width = 0, !.height = 0]
                   ELSE RealCrtcInfo(Hw, last.id)

\* the reply for a CRTC with a mode that owns a virtual CRTC had its size zeroed
C9_Witness ==
    /\ ReplyDone("crtc") /\ IsReal(last.id) /\ last.real # NULL
    /\ OwnsVirtualController(last.id)
    /\ last.real.width > 0
    /\ last.real.mode # None
    /\ last.ret.width = 0
    /\ last.ret.mode = None

\* C10: a detail reply for a real id that is neither a split parent nor the
\* owner of a virtual CRTC is the real backend's reply, unmodified, in every
\* state, also before any snapshot exists.
C10_OtherRealIdsPassThrough ==
    (last.op = "info_reply" /\ last.known /\ ~crashed /\ IsReal(last.id)
     /\ ~(last.kind = "output" /\ IsSplitParent(last.id))
     /\ ~(last.kind = "crtc" /\ OwnsVirtualController(last.id))) =>
        last.ret = last.real


\* Is the plan subtree at pos well formed for a w x h rectangle: every tag one
\* of 'N', 'H', 'V' and every split offset within the dimension it splits?
\* ok says so, pos is the position after the subtree.
RECURSIVE PlanCheck(_, _, _, _)
PlanCheckSecond(plan, first, tag, s, w, h) ==
    IF ~first.ok THEN first
    ELSE IF tag = "H" THEN PlanCheck(plan, first.pos, w, U32Sub(h, s))
    ELSE PlanCheck(plan, first.pos, U32Sub(w, s), h)

PlanCheck(plan, pos, w, h) ==
    IF TagAt(plan, pos) = "N" THEN [ok |-> TRUE, pos |-> pos + 1]
    ELSE IF TagAt(plan, pos) = "H" /\ U32Le(plan[pos].split_pos, h)
    THEN PlanCheckSecond(plan, PlanCheck(plan, pos + 1, w, plan[pos].split_pos),
                         "H", plan[pos].split_pos, w, h)
    ELSE IF TagAt(plan, pos) = "V" /\ U32Le(plan[pos].split_pos, w)
    THEN PlanCheckSecond(plan, PlanCheck(plan, pos + 1, plan[pos].split_pos, h),
                         "V", plan[pos].split_pos, w, h)
    ELSE [ok |-> FALSE, pos |-> pos]

WellFormed(rec) == PlanCheck(rec.payload, 1, rec.width, rec.height).ok

\* the record the matcher selects for the i-th output has a malformed plan
MalformedFor(i) ==
    /\ ExpectedRecord(LastFile, Hw, Hw.outputs[i]) # 0
    /\ ~WellFormed(LastFile[ExpectedRecord(LastFile, Hw, Hw.outputs[i])])

\* C11: when the plan matched for a monitor is malformed (unknown tag, or a
\* split offset larger than the dimension split), the reply function still
\* returns and the snapshot holds no virtual output or CRTC of that monitor.
C11_MalformedPlanRejected ==
    (/\ last.op = "screen_resources_reply" /\ last.file # 0 /\ last.resOk
     /\ \E i \in DOMAIN Hw.outputs : MalformedFor(i)) =>
        /\ ~crashed
        /\ \A i \in DOMAIN Hw.outputs :
               MalformedFor(i) =>
                   /\ OutputsOf(Hw.outputs[i]) = <<>>
                   /\ CrtcsOf(Hw.outputs[i]) = <<>>


\* C12: the global snapshot reference never denotes a released snapshot, and
\* after a screen-resources reply function has returned, the live snapshot is
\* the one built from that reply.
C12_OneLiveSnapshot ==
    /\ fakeScreenResources.ptr # "freed"
    /\ (last.op = "screen_resources_reply" /\ ~crashed) =>
           /\ fakeScreenResources.ptr = "live"
           /\ (last.resOk => Snapshot.origRes = RealResources(Hw))

\* the ids of a list of virtual objects, in list order
FakeIds(list) == [i \in 1..Len(list) |-> list[i].xid]

\* C13: the outward screen-resources reply lists in each array the real
\* entries in the real reply's order followed by the virtual entries in
\* snapshot order, and each count is the real count plus the number of
\* virtual objects of the kind.
C13_RealThenVirtual ==
    RebuildDone =>
        /\ last.ret.crtcs = Hw.crtcs \o FakeIds(Snapshot.fake_crtcs)
        /\ last.ret.outputs = Hw.outputs \o FakeIds(Snapshot.fake_outputs)
        /\ last.ret.modes = Hw.modes \o Snapshot.fake_modes
        /\ last.ret.num_crtcs = Len(Hw.crtcs) + Len(Snapshot.fake_crtcs)
        /\ last.ret.num_outputs = Len(Hw.outputs) + Len(Snapshot.fake_outputs)
        /\ last.ret.num_modes = Len(Hw.modes) + Len(Snapshot.fake_modes)
        /\ last.ret.num_crtcs = Len(last.ret.crtcs)
        /\ last.ret.num_outputs = Len(last.ret.outputs)
        /\ last.ret.num_modes = Len(last.ret.modes)

\* a reply was composed from a snapshot with several virtual objects of each kind
C13_Witness ==
    /\ RebuildDone
    /\ Len(Snapshot.fake_crtcs) >= 2
    /\ Len(Snapshot.fake_outputs) >= 2
    /\ Len(Snapshot.fake_modes) >= 2
    /\ last.ret.num_outputs = Len(Hw.outputs) + Len(Snapshot.fake_outputs)
    /\ last.ret.outputs[Len(Hw.outputs) + 1] = Snapshot.fake_outputs[1].xid


\* C14: for a real id with the reserved bit range clear and an index below
\* the range's size, decoding the encoded id gives the real id and the index
\* back; encoding with index 0 gives the real id itself.
C14_CodecRoundTrip ==
    (sp.pc = "decoded" /\ SplitBits(sp.real) = U32(0) /\ sp.index < IndexRange) =>
        /\ sp.out_real = sp.real
        /\ sp.out_index = sp.index
        /\ (sp.index = 0 => sp.xid = sp.real)

\* the largest valid index was encoded into an id with bit 31 set and decoded
C14_Witness ==
    /\ sp.pc = "decoded"
    /\ SplitBits(sp.real) = U32(0)
    /\ sp.real[1] >= MaskTopBit
    /\ sp.index = IndexRange - 1
    /\ sp.xid # sp.real
    /\ sp.out_real = sp.real
    /\ sp.out_index = sp.index


\* the fetch of the fingerprint, the output info or the CRTC info of an
\* output fails
FetchFails(output) ==
    \/ Hw.edid[output] = <<>>
    \/ RealOutputInfo(Hw, output) = NULL
    \/ CrtcInfoOf(Hw, output) = NULL

\* the lists a rebuild is to produce from output i on: for each output, in
\* order, the objects of the plan of the record selected for it
RECURSIVE ExpectedLists(_, _)
ExpectedLists(i, acc) ==
    IF i > Len(Hw.outputs) THEN acc
    ELSE ExpectedLists(i + 1,
             IF ExpectedRecord(LastFile, Hw, Hw.outputs[i]) = 0 THEN acc
             ELSE ApplyPlan(LastFile[ExpectedRecord(LastFile, Hw, Hw.outputs[i])],
                            RealResources(Hw), Hw.outputs[i],
                            RealOutputInfo(Hw, Hw.outputs[i]),
                            CrtcInfoOf(Hw, Hw.outputs[i]), acc))

\* C15: when a fetch fails for an output during a rebuild, that output gets
\* no virtual objects and the installed snapshot holds exactly the complete
\* objects of the other outputs, as without the failure.
C15_FailedFetchIsolated ==
    (RebuildDone /\ \E i \in DOMAIN Hw.outputs : FetchFails(Hw.outputs[i])) =>
        /\ \A i \in DOMAIN Hw.outputs :
               FetchFails(Hw.outputs[i]) =>
                   /\ OutputsOf(Hw.outputs[i]) = <<>>
                   /\ CrtcsOf(Hw.outputs[i]) = <<>>
        /\ Snapshot.fake_outputs = ExpectedLists(1, NoFakes).fake_outputs
        /\ Snapshot.fake_crtcs = ExpectedLists(1, NoFakes).fake_crtcs
        /\ Snapshot.fake_modes = ExpectedLists(1, NoFakes).fake_modes

\* a rebuild in which the output-info fetch failed for an output with a
\* record of its fingerprint, and a later output was split
C15_Witness ==
    /\ RebuildDone
    /\ \E i, j \in DOMAIN Hw.outputs :
           /\ i < j
           /\ RealOutputInfo(Hw, Hw.outputs[i]) = NULL
           /\ \E k \in DOMAIN LastFile :
                  LastFile[k].edid = get_output_edid(Hw, Hw.outputs[i]).edid
           /\ OutputsOf(Hw.outputs[i]) = <<>>
           /\ Len(OutputsOf(Hw.outputs[j])) >= 2


\* C16: when the backend answers the screen-resources query with an error
\* (no reply) and the configuration is readable, the reply function returns
\* and what it returns is the backend's null reply.
C16_BackendErrorReturned ==
    (last.op = "screen_resources_reply" /\ ~last.resOk /\ last.file # 0) =>
        /\ ~crashed
        /\ last.ret = NULL

\* C17: when the backend answers a recorded detail query on a real id with
\* an error (no reply), the reply function returns and what it returns is
\* the backend's null reply, also for a split parent or an owner of a
\* virtual CRTC.
C17_DetailErrorReturned ==
    (last.op = "info_reply" /\ last.known /\ IsReal(last.id) /\ last.fetched
     /\ last.real = NULL) =>
        /\ ~crashed
        /\ last.ret = NULL

\* no two records of a pending table have the same sequence number
KeysUnique(pairs) ==
    \A i, j \in DOMAIN pairs : pairs[i].key = pairs[j].key => i = j

\* a step of the pending tables
PendingStep ==
    /\ (~crashed' /\ Len(requests') = Len(requests) + 1) =>
           \* an issue adds one record, for the new sequence number and the id passed
           /\ IF requests'[Len(requests')].kind = "crtc"
              THEN /\ crtc_info_cookies' # crtc_info_cookies
                   /\ output_info_cookies' = output_info_cookies
                   /\ Len(crtc_info_cookies') = Len(crtc_info_cookies) + 1
                   /\ \A i \in DOMAIN crtc_info_cookies :
                          \E j \in DOMAIN crtc_info_cookies' :
                              crtc_info_cookies'[j] = crtc_info_cookies[i]
                   /\ \E j \in DOMAIN crtc_info_cookies' :
                          crtc_info_cookies'[j] = [key |-> Len(requests'),
                                                   value |-> requests'[Len(requests')].id]
              ELSE /\ crtc_info_cookies' = crtc_info_cookies
                   /\ Len(output_info_cookies') = Len(output_info_cookies) + 1
                   /\ \A i \in DOMAIN output_info_cookies :
                          \E j \in DOMAIN output_info_cookies' :
                              output_info_cookies'[j] = output_info_cookies[i]
                   /\ \E j \in DOMAIN output_info_cookies' :
                          output_info_cookies'[j] = [key |-> Len(requests'),
                                                     value |-> requests'[Len(requests')].id]
    /\ (~crashed' /\ last'.op = "info_reply" /\ last'.known) =>
           \* the first fetch consumes its record and leaves the others alone
           LET Others(p) == p.key # last'.sequence
           IN  /\ last'.first
               /\ IF last'.kind = "crtc"
                  THEN /\ crtc_info_cookies' = SelectSeq(crtc_info_cookies, Others)
                       /\ Len(crtc_info_cookies') = Len(crtc_info_cookies) - 1
                       /\ output_info_cookies' = output_info_cookies
                  ELSE /\ output_info_cookies' = SelectSeq(output_info_cookies, Others)
                       /\ Len(output_info_cookies') = Len(output_info_cookies) - 1
                       /\ crtc_info_cookies' = crtc_info_cookies
    /\ (~crashed' /\ last'.op = "info_reply" /\ ~last'.first) =>
           \* a later fetch with the same sequence number finds no record
           /\ ~last'.known
           /\ crtc_info_cookies' = crtc_info_cookies
           /\ output_info_cookies' = output_info_cookies

\* C18: each issue creates one pending record; the first fetch with its
\* sequence number consumes it and leaves every other record unchanged, a
\* second fetch with that number takes the unknown-sequence path; each table
\* always holds at most one record per sequence number.
C18_PendingLifecycle ==
    /\ [][PendingStep]_vars
    /\ [](KeysUnique(crtc_info_cookies) /\ KeysUnique(output_info_cookies))

\* a second fetch with a consumed sequence number took the unknown-sequence
\* path while another record of the kind was still pending
C18_Witness ==
    /\ last.op = "info_reply"
    /\ ~crashed
    /\ ~last.first
    /\ ~last.known
    /\ PendingOf(last.kind) # <<>>

\* C19: every virtual CRTC of the snapshot has exactly one virtual mode with
\* its id, of the CRTC's width and height; that id is the CRTC's mode and the
\* single mode and CRTC listed by its virtual output; there are as many
\* virtual modes as virtual CRTCs.
C19_CompleteTriples ==
    RebuildDone =>
        /\ Len(Snapshot.fake_modes) = Len(Snapshot.fake_crtcs)
        /\ \A i \in DOMAIN Snapshot.fake_crtcs :
               /\ Cardinality({j \in DOMAIN Snapshot.fake_modes :
                      Snapshot.fake_modes[j].id = Snapshot.fake_crtcs[i].xid}) = 1
               /\ \A j \in DOMAIN Snapshot.fake_modes :
                      Snapshot.fake_modes[j].id = Snapshot.fake_crtcs[i].xid =>
                          /\ Snapshot.fake_modes[j].width = Snapshot.fake_crtcs[i].info.width
                          /\ Snapshot.fake_modes[j].height = Snapshot.fake_crtcs[i].info.height
               /\ Snapshot.fake_crtcs[i].info.mode = Snapshot.fake_crtcs[i].xid
               /\ \E k \in DOMAIN Snapshot.fake_outputs :
                      /\ Snapshot.fake_outputs[k].xid = Snapshot.fake_crtcs[i].info.outputs[1]
                      /\ Snapshot.fake_outputs[k].info.crtc = Snapshot.fake_crtcs[i].xid
                      /\ Snapshot.fake_outputs[k].info.crtcs = <<Snapshot.fake_crtcs[i].xid>>
                      /\ Snapshot.fake_outputs[k].info.modes = <<Snapshot.fake_crtcs[i].xid>>


\* The leaf rectangles <<x, y, width, height>> of a well-formed plan subtree
\* in document order, first child before second; pos is the position after
\* the subtree.
RECURSIVE DocLeaves(_, _, _, _, _, _)
DocLeavesSecond(plan, first, tag, s, x, y, w, h) ==
    IF tag = "H"
    THEN [pos |-> DocLeaves(plan, first.pos, x, y + s, w, h - s).pos,
          rects |-> first.rects \o DocLeaves(plan, first.pos, x, y + s, w, h - s).rects]
    ELSE [pos |-> DocLeaves(plan, first.pos, x + s, y, w - s, h).pos,
          rects |-> first.rects \o DocLeaves(plan, first.pos, x + s, y, w - s, h).rects]

DocLeaves(plan, pos, x, y, w, h) ==
    IF plan[pos].tag = "N" THEN [pos |-> pos + 1, rects |-> <<<<x, y, w, h>>>>]
    ELSE IF plan[pos].tag = "H"
    THEN DocLeavesSecond(plan, DocLeaves(plan, pos + 1, x, y, w, plan[pos].split_pos[2]),
                         "H", plan[pos].split_pos[2], x, y, w, h)
    ELSE DocLeavesSecond(plan, DocLeaves(plan, pos + 1, x, y, plan[pos].split_pos[2], h),
                         "V", plan[pos].split_pos[2], x, y, w, h)

\* the record selected for the i-th output (defined when there is one)
RecordOf(i) == LastFile[ExpectedRecord(LastFile, Hw, Hw.outputs[i])]

\* number of leaves of the plans selected for the outputs before the i-th
RECURSIVE LeavesBefore(_)
LeavesBefore(i) ==
    IF i = 1 THEN 0
    ELSE LeavesBefore(i - 1)
         + (IF ExpectedRecord(LastFile, Hw, Hw.outputs[i - 1]) = 0 THEN 0
            ELSE LeafCount(RecordOf(i - 1).payload))

\* the rectangle of a virtual CRTC relative to the origin of the real one
RelativeRect(fc, crtc) ==
    <<fc.info.x - crtc.x, fc.info.y - crtc.y, fc.info.width, fc.info.height>>

\* C20: for each matched monitor the k-th leaf of its plan in document order
\* gets index k: the virtual output has id encode(output, k) and parent the
\* output, the virtual CRTC has id encode(CRTC, k) and (for a well-formed
\* plan) the k-th leaf rectangle; the counter starts again for each monitor.
C20_LeafIndexing ==
    RebuildDone =>
        \A i \in DOMAIN Hw.outputs :
            ExpectedRecord(LastFile, Hw, Hw.outputs[i]) # 0 =>
                \A k \in 1..LeafCount(RecordOf(i).payload) :
                    /\ LeavesBefore(i) + k \in DOMAIN Snapshot.fake_outputs
                    /\ LeavesBefore(i) + k \in DOMAIN Snapshot.fake_crtcs
                    /\ Snapshot.fake_outputs[LeavesBefore(i) + k].xid
                         = augmentXID(Hw.outputs[i], U32(k))
                    /\ Snapshot.fake_outputs[LeavesBefore(i) + k].parent_xid = Hw.outputs[i]
                    /\ Snapshot.fake_crtcs[LeavesBefore(i) + k].xid
                         = augmentXID(RealOutputInfo(Hw, Hw.outputs[i]).crtc, U32(k))
                    /\ SplitIndex(Snapshot.fake_outputs[LeavesBefore(i) + k].xid) = k
                    /\ WellFormed(RecordOf(i)) =>
                           RelativeRect(Snapshot.fake_crtcs[LeavesBefore(i) + k],
                                        CrtcInfoOf(Hw, Hw.outputs[i]))
                             = DocLeaves(RecordOf(i).payload, 1, 0, 0,
                                         RecordOf(i).width[2], RecordOf(i).height[2]).rects[k]

\* a rebuild split a first monitor into three and a second one into two: the
\* second monitor's indices start at 1 again
C20_Witness ==
    /\ RebuildDone
    /\ \E i, j \in DOMAIN Hw.outputs :
           /\ i < j
           /\ ExpectedRecord(LastFile, Hw, Hw.outputs[i]) # 0
           /\ LeafCount(RecordOf(i).payload) = 3
           /\ ExpectedRecord(LastFile, Hw, Hw.outputs[j]) # 0
           /\ LeafCount(RecordOf(j).payload) = 2
           /\ Snapshot.fake_outputs[4].xid = augmentXID(Hw.outputs[j], U32(1))
           /\ Snapshot.fake_outputs[3].xid = augmentXID(Hw.outputs[i], U32(3))


\* the virtual CRTC of the k-th leaf of the plan selected for the i-th output
LeafCrtc(i, k) == Snapshot.fake_crtcs[LeavesBefore(i) + k]

\* the rectangle of a CRTC info lies in the rectangle of another
RectWithin(inner, outer) ==
    /\ outer.x <= inner.x
    /\ inner.x + inner.width <= outer.x + outer.width
    /\ outer.y <= inner.y
    /\ inner.y + inner.height <= outer.y + outer.height

\* C21: the rectangle of each virtual CRTC lies within the rectangle of the
\* real CRTC of its monitor, and (for a well-formed plan) it is the leaf
\* rectangle translated by the real CRTC's origin.
C21_ControllerWithinParent ==
    RebuildDone =>
        \A i \in DOMAIN Hw.outputs :
            ExpectedRecord(LastFile, Hw, Hw.outputs[i]) # 0 =>
                \A k \in 1..LeafCount(RecordOf(i).payload) :
                    /\ RectWithin(LeafCrtc(i, k).info, CrtcInfoOf(Hw, Hw.outputs[i]))
                    /\ WellFormed(RecordOf(i)) =>
                           LET leaf == DocLeaves(RecordOf(i).payload, 1, 0, 0,
                                           RecordOf(i).width[2], RecordOf(i).height[2]).rects[k]
                           IN  /\ LeafCrtc(i, k).info.x = CrtcInfoOf(Hw, Hw.outputs[i]).x + leaf[1]
                               /\ LeafCrtc(i, k).info.y = CrtcInfoOf(Hw, Hw.outputs[i]).y + leaf[2]
                               /\ LeafCrtc(i, k).info.width = leaf[3]
                               /\ LeafCrtc(i, k).info.height = leaf[4]


\* the virtual output of the k-th leaf of the plan selected for the i-th output
LeafOutput(i, k) == Snapshot.fake_outputs[LeavesBefore(i) + k]

\* The leaf sizes <<width, height>> of a plan subtree in document order, as
\* unsigned 32-bit numbers: the second part of a split gets what the
\* unsigned subtraction leaves.  A tag that is no split and no leaf ends it.
RECURSIVE LeafSizes(_, _, _, _)
LeafSizesSecond(plan, first, tag, s, w, h) ==
    IF tag = "H"
    THEN [pos |-> LeafSizes(plan, first.pos, w, U32Sub(h, s)).pos,
          sizes |-> first.sizes \o LeafSizes(plan, first.pos, w, U32Sub(h, s)).sizes]
    ELSE [pos |-> LeafSizes(plan, first.pos, U32Sub(w, s), h).pos,
          sizes |-> first.sizes \o LeafSizes(plan, first.pos, U32Sub(w, s), h).sizes]

LeafSizes(plan, pos, w, h) ==
    IF plan[pos].tag = "N" THEN [pos |-> pos + 1, sizes |-> <<<<w, h>>>>]
    ELSE IF plan[pos].tag = "H"
    THEN LeafSizesSecond(plan, LeafSizes(plan, pos + 1, w, plan[pos].split_pos),
                         "H", plan[pos].split_pos, w, h)
    ELSE IF plan[pos].tag = "V"
    THEN LeafSizesSecond(plan, LeafSizes(plan, pos + 1, plan[pos].split_pos, h),
                         "V", plan[pos].split_pos, w, h)
    ELSE [pos |-> pos, sizes |-> <<>>]

\* the size of the k-th leaf of the plan selected for the i-th output
LeafSize(i, k) == LeafSizes(RecordOf(i).payload, 1, RecordOf(i).width, RecordOf(i).height).sizes[k]

Distinct(ids) == \A i, j \in DOMAIN ids : i # j => ids[i] # ids[j]

\* the elements of a sequence
Range(ids) == {ids[i] : i \in DOMAIN ids}

\* C23: within a live snapshot the virtual output ids are pairwise distinct,
\* the virtual CRTC ids are pairwise distinct, the virtual mode ids are
\* pairwise distinct, and no virtual id equals a real id of its kind.
C23_VirtualIdsDistinct ==
    RebuildDone =>
        /\ Distinct(FakeIds(Snapshot.fake_outputs))
        /\ Distinct(FakeIds(Snapshot.fake_crtcs))
        /\ Distinct([i \in DOMAIN Snapshot.fake_modes |-> Snapshot.fake_modes[i].id])
        /\ Range(FakeIds(Snapshot.fake_outputs)) \cap Range(Snapshot.origRes.outputs) = {}
        /\ Range(FakeIds(Snapshot.fake_crtcs)) \cap Range(Snapshot.origRes.crtcs) = {}
        /\ \A i \in DOMAIN Snapshot.fake_modes, j \in DOMAIN Snapshot.origRes.modes :
               Snapshot.fake_modes[i].id # Snapshot.origRes.modes[j].id


\* C24: every iteration of the scan reads bytes of the stream only: the
\* header read (and the plan of a matched record) lies in [0, config_file_size),
\* and at or behind the end of the stream nothing is read.
C24_ScanReadsInsideStream ==
    sp.iterations > 0 =>
        /\ 0 <= sp.read[1]
        /\ sp.read[1] < FileSize(ScanFile)
        /\ sp.read[2] <= FileSize(ScanFile)
        /\ sp.pc # "crashed"

\* C25: each iteration of the scan that does not return moves the cursor
\* forward, whatever the size field holds.
C25_ScanAdvances ==
    (sp.iterations > 0 /\ sp.pc = "loop") => sp.advance > 0

====
